---------------------------- MODULE Spec2Model ----------------------------
(***************************************************************************)
(* Threshold Paillier (pht-crypto): key generation, encryption, the        *)
(* homomorphic operations, Shamir sharing of the private exponent, partial *)
(* decryption and Lagrange combination, modelled from src/src/paillier.rs, *)
(* src/src/util.rs and src/src/rand.rs.                                    *)
(*                                                                         *)
(* rug::Integer is arbitrary precision: the model uses TLA+ integers and   *)
(* keeps every modulus small enough that no product leaves TLC's range.    *)
(***************************************************************************)
EXTENDS Integers, Sequences, FiniteSets, TLC

(***************************************************************************)
(* Bounds of the model.                                                    *)
(***************************************************************************)
\* decryption_servers ranges over 1..MaxServers
MaxServers == 5
\* threshold ranges over 0..MaxThreshold
MaxThreshold == 3
\* at most MaxShares key shares are derived from one polynomial
MaxShares == 3
\* at most MaxOps homomorphic operations are applied to one ciphertext
MaxOps == 2
\* crt2 is exercised on moduli 1..MaxModulus and residues 0..MaxModulus
MaxModulus == 6

\* Values the callers pass and the random sources return (samples of the
\* unbounded domains of the code).  HomKeyChoices: the <<l, w>> of the keys
\* the homomorphic operations are run under; OperandChoices(n): the
\* plaintext operands of add_plain and mul_plain.
HomKeyChoices == {<<1, 1>>, <<3, 2>>}
OperandChoices(n) == {0, 2, n - 1}
BitsChoices == {6, 7, 8}
SafePrimeTable == {5, 7}
IndexChoices == 0 .. 3
PlainChoices == {-1, 5, 36}
RawCipherChoices == {0, 35}

(***************************************************************************)
(* rug::Integer primitives.                                                *)
(***************************************************************************)
Abs(x) == IF x < 0 THEN -x ELSE x

\* rug `/` on Integer: quotient truncated towards zero
TDiv(a, b) ==
  IF (a >= 0) = (b > 0) THEN Abs(a) \div Abs(b) ELSE -(Abs(a) \div Abs(b))

\* rug `%` on Integer: remainder with the sign of the dividend
TRem(a, b) == a - b * TDiv(a, b)

RECURSIVE GcdNat(_, _)
GcdNat(a, b) == IF b = 0 THEN a ELSE GcdNat(b, a % b)

\* Integer::gcd
Gcd(a, b) == GcdNat(Abs(a), Abs(b))

RECURSIVE Factorial(_)
\* Integer::factorial
Factorial(k) == IF k <= 1 THEN 1 ELSE k * Factorial(k - 1)

RECURSIVE UPowU(_, _)
\* Integer::u_pow_u
UPowU(b, e) == IF e <= 0 THEN 1 ELSE b * UPowU(b, e - 1)

\* The value an absent result carries.
None == -1

RECURSIVE Bezout(_, _)
\* <<g, x, y>> with g = gcd(a, b) = a * x + b * y, for a, b >= 0
Bezout(a, b) ==
  IF b = 0 THEN <<a, 1, 0>>
  ELSE LET r == Bezout(b, a % b)
       IN <<r[1], r[3], r[2] - (a \div b) * r[3]>>

\* Integer::invert: the inverse in [0, m), or None (Err) when there is none
Invert(a, m) ==
  LET r == Bezout(a % m, m)
  IN IF r[1] = 1 THEN r[2] % m ELSE None

RECURSIVE PowModNat(_, _, _)
PowModNat(b, e, m) ==
  IF e = 0 THEN 1 % m
  ELSE LET h == PowModNat(b, e \div 2, m)
           sq == (h * h) % m
       IN IF e % 2 = 1 THEN (sq * b) % m ELSE sq

\* Integer::pow_mod: base^e mod m in [0, m); a negative exponent inverts the
\* base first and gives None (Err) when the base has no inverse.
PowMod(b, e, m) ==
  IF e >= 0 THEN PowModNat(b % m, e, m)
  ELSE LET inv == Invert(b, m)
       IN IF inv = None THEN None ELSE PowModNat(inv, -e, m)

\* Integer::random_below: some value of [0, bound); the samples are 2 and the
\* top of the range
RandomBelow(bound) == {x \in 0 .. (bound - 1) : x = 2 \/ x = bound - 1}

\* rand.rs random_in_mult_group: draws until gcd(res, op) = 1
RandomInMultGroup(op) == {r \in RandomBelow(op) : Gcd(r, op) = 1}

\* rand.rs generate_safe_prime: the safe primes of exactly `bits` bits the
\* prime source can return (none: the source fails)
SafePrimes(bits) ==
  {p \in SafePrimeTable : UPowU(2, bits - 1) <= p /\ p < UPowU(2, bits)}

(***************************************************************************)
(* util.rs crt2.                                                           *)
(***************************************************************************)
\* The result of a call: ok with a value, or a panic.
Ok(v) == [kind |-> "ok", val |-> v, msg |-> ""]
Panic(m) == [kind |-> "panic", val |-> None, msg |-> m]
Err(m) == [kind |-> "err", val |-> None, msg |-> m]
NoResult == [kind |-> "none", val |-> None, msg |-> ""]

\* crt2 with the two residues exchanged
Crt2Exchanged(con1_a, con1_m, con2_a, con2_m) ==
  IF Gcd(con1_m, con2_m) # 1 THEN Panic("assert_eq t 1")
  ELSE LET res1 == Invert(con2_m, con1_m) * (con2_m * con2_a)
           t == Invert(con1_m, con2_m) * con1_m * con1_a
       IN Ok(TRem(res1 + t, con1_m * con2_m))

\* util.rs lines 9-24
Crt2(con1_a, con1_m, con2_a, con2_m) ==
  IF Gcd(con1_m, con2_m) # 1 THEN Panic("assert_eq t 1")
  ELSE LET res1 == Invert(con2_m, con1_m) * (con2_m * con1_a)
           t == Invert(con1_m, con2_m) * con1_m * con2_a
       IN Ok(TRem(res1 + t, con1_m * con2_m))

(***************************************************************************)
(* paillier.rs generate_key_pair, after the two primes are drawn.          *)
(***************************************************************************)
NullPk == [w |-> 0, l |-> 0, n |-> 0, g |-> 0, n2 |-> 0, delta |-> 0,
           combine_shares_constant |-> 0]
NullSk == [w |-> 0, l |-> 0, d |-> 0, n |-> 0, n2 |-> 0, nm |-> 0]

\* the constant without the factor 4 of line 99
CombineSharesConstantUnscaled(delta, n) == Invert(delta * delta, n)

\* lines 97-102: (4 * delta^2)^-1 mod n, None when there is no inverse
CombineSharesConstant(delta, n) == Invert(delta * delta * 4, n)

\* lines 89-123: t1, t3 the primes, t2 = t1 >> 1, t4 = t3 >> 1
KeyPairOf(t1, t2, t3, t4, decryption_servers, threshold) ==
  LET n == t1 * t3
      n2 == n * n
      g == n + 1
      m == t2 * t4
      nm == n * m
      d == Crt2(1, n, 0, m)
      delta == Factorial(decryption_servers)
      cc == CombineSharesConstant(delta, n)
  IN IF d.kind = "panic" THEN [kind |-> "panic", msg |-> d.msg, pk |-> NullPk, sk |-> NullSk]
     ELSE IF cc = None THEN [kind |-> "err", msg |-> "No inverse", pk |-> NullPk, sk |-> NullSk]
     ELSE [kind |-> "ok", msg |-> "",
           pk |-> [w |-> threshold, l |-> decryption_servers, n |-> n, g |-> g,
                   n2 |-> n2, delta |-> delta, combine_shares_constant |-> cc],
           sk |-> [w |-> threshold, l |-> decryption_servers, d |-> d.val,
                   n |-> n, n2 |-> n2, nm |-> nm]]

(***************************************************************************)
(* paillier.rs PublicKey: encrypt and the homomorphic operations.  `r` is  *)
(* the value random_in_mult_group returned.                                *)
(***************************************************************************)
\* lines 143-153
Encrypt(pk, m, r) ==
  LET rop == PowMod(pk.g, m, pk.n2)
      rn == PowMod(r, pk.n, pk.n2)
  IN TRem(rop * rn, pk.n2)

\* lines 155-161
Reencrypt(pk, cipher, r) == TRem(cipher * PowMod(r, pk.n, pk.n2), pk.n2)

\* lines 163-168
AddPlain(pk, cipher, plain) == TRem(cipher * PowMod(pk.g, plain, pk.n2), pk.n2)

\* lines 170-173
AddEncrypted(pk, cipher1, cipher2) == TRem(cipher1 * cipher2, pk.n2)

\* mul_plain multiplying the ciphertext by the plaintext
MulPlainAsProduct(pk, cipher, plain) == TRem(cipher * plain, pk.n2)

\* lines 175-180
MulPlain(pk, cipher, plain) == PowMod(cipher, plain, pk.n2)

(***************************************************************************)
(* paillier.rs Polynomial and PrivateKey::share.  `rnd` holds the values   *)
(* random_below returned, one for each coefficient after the first.        *)
(***************************************************************************)
\* lines 227-234: a panic when coefficients[0] is out of bounds (w = 0)
PolynomialNew(sk, rnd) ==
  IF sk.w = 0
  THEN [kind |-> "panic", msg |-> "index out of bounds", coefficients |-> <<>>]
  ELSE [kind |-> "ok", msg |-> "",
        coefficients |-> [k \in 1 .. sk.w |-> IF k = 1 THEN sk.d ELSE rnd[k - 1]]]

\* lines 127-130
PrivateKeyShareNew(si, i) == [i |-> i + 1, si |-> si]

RECURSIVE ComputeLoop(_, _, _, _, _)
\* lines 238-243: `k` is the position in the coefficient vector, 1-based
ComputeLoop(coefficients, nm, x, k, rop) ==
  IF k > Len(coefficients) THEN rop
  ELSE LET tmp == UPowU(x + 1, k - 1) * coefficients[k]
       IN ComputeLoop(coefficients, nm, x, k + 1, TRem(rop + tmp, nm))

\* compute evaluating the polynomial at x instead of x + 1
ComputeUnshifted(coefficients, sk, x) ==
  PrivateKeyShareNew(ComputeLoop(coefficients, sk.nm, x - 1, 2, coefficients[1]), x)

\* lines 236-245
Compute(coefficients, sk, x) ==
  PrivateKeyShareNew(ComputeLoop(coefficients, sk.nm, x, 2, coefficients[1]), x)

\* lines 208-224: the shares, or the panic of the assertion or of
\* Polynomial::new
Share(sk, server_indices, rnd) ==
  IF Len(server_indices) # sk.w
  THEN [kind |-> "panic", msg |-> "share() must be called with w unique indices",
        shares |-> <<>>, coefficients |-> <<>>]
  ELSE IF PolynomialNew(sk, rnd).kind = "panic"
  THEN [kind |-> "panic", msg |-> PolynomialNew(sk, rnd).msg, shares |-> <<>>,
        coefficients |-> <<>>]
  ELSE LET poly == PolynomialNew(sk, rnd).coefficients
       IN [kind |-> "ok", msg |-> "", coefficients |-> poly,
           shares |-> [k \in 1 .. Len(server_indices) |->
                         Compute(poly, sk, server_indices[k])]]

(***************************************************************************)
(* paillier.rs share_decrypt and share_combine.                            *)
(***************************************************************************)
\* share_decrypt without the factor 2 of the exponent
ShareDecryptUndoubled(share, pk, cipher) ==
  [val |-> PowMod(cipher, share.si * pk.delta, pk.n2), id |-> share.i]

\* lines 132-139
ShareDecrypt(share, pk, cipher) ==
  [val |-> PowMod(cipher, share.si * pk.delta * 2, pk.n2), id |-> share.i]

RECURSIVE LambdaLoopByPosition(_, _, _, _)
\* the inner loop multiplying by the position of the other share, not its id
LambdaLoopByPosition(shares, i, j, lambda) ==
  IF j > Len(shares) THEN Ok(lambda)
  ELSE IF i = j THEN LambdaLoopByPosition(shares, i, j + 1, lambda)
  ELSE IF shares[i].id = shares[j].id
  THEN Panic("share_combine must be passed unique shares")
  ELSE LET v == shares[i].id - shares[j].id
       IN LambdaLoopByPosition(shares, i, j + 1, TDiv(lambda * (-j), v))

RECURSIVE LambdaLoopUnchecked(_, _, _, _)
\* the inner loop without the assert_ne: the division by v = 0 panics
LambdaLoopUnchecked(shares, i, j, lambda) ==
  IF j > Len(shares) THEN Ok(lambda)
  ELSE IF i = j THEN LambdaLoopUnchecked(shares, i, j + 1, lambda)
  ELSE IF shares[i].id = shares[j].id
  THEN Panic("division by zero")
  ELSE LET v == shares[i].id - shares[j].id
       IN LambdaLoopUnchecked(shares, i, j + 1, TDiv(lambda * (-shares[j].id), v))

RECURSIVE LambdaLoop(_, _, _, _)
\* lines 188-196: the inner loop of item i from position j on; None when the
\* assert_ne on the two ids fails
LambdaLoop(shares, i, j, lambda) ==
  IF j > Len(shares) THEN Ok(lambda)
  ELSE IF i = j THEN LambdaLoop(shares, i, j + 1, lambda)
  ELSE IF shares[i].id = shares[j].id
  THEN Panic("share_combine must be passed unique shares")
  ELSE LET v == shares[i].id - shares[j].id
       IN LambdaLoop(shares, i, j + 1, TDiv(lambda * (-shares[j].id), v))

\* lines 186-199: the closure mapped over the shares
CombineItem(pk, shares, i) ==
  LET lambda == LambdaLoop(shares, i, 1, pk.delta)
  IN IF lambda.kind = "panic" THEN lambda
     ELSE LET p == PowMod(shares[i].val, lambda.val * 2, pk.n2)
          IN IF p = None THEN Panic("unwrap on an Err value")
             ELSE Ok(p)

RECURSIVE CombineReduce(_, _, _, _)
\* line 200: the product of the items from position k on, from identity 1
CombineReduce(items, n2, k, acc) ==
  IF k > Len(items) THEN acc
  ELSE CombineReduce(items, n2, k + 1, TRem(acc * items[k].val, n2))

\* lines 182-204: the set of results a call can end with (the parallel
\* iterator rethrows the panic of one of the items that panicked)
ShareCombine(pk, shares) ==
  LET items == [i \in 1 .. Len(shares) |-> CombineItem(pk, shares, i)]
      panics == {items[i].msg : i \in {k \in 1 .. Len(shares) : items[k].kind = "panic"}}
  IN IF panics # {}
     THEN {Panic(m) : m \in panics}
     ELSE LET cprime == CombineReduce(items, pk.n2, 1, 1)
              t == TDiv(cprime - 1, pk.n)
          IN {Ok(TRem(t * pk.combine_shares_constant, pk.n))}

(***************************************************************************)
(* The state: one caller of the library, and the worker thread that        *)
(* generate_key_pair forks.                                                *)
(***************************************************************************)
VARIABLES
  pc,           \* where the caller is
  worker,       \* the forked prime-generation thread: none, running, finished
  wres,         \* what the worker's generate_safe_prime returned (None: Err)
  halfbits,     \* `bits` after line 80, which the worker's closure captures
  args,         \* the decryption_servers and threshold of the last call
  t1, t3,       \* generate_key_pair's locals: the two primes
  kgRes,        \* what generate_key_pair returned
  pk, sk,       \* the key pair it returned
  coefficients, \* the Polynomial of the sharing
  via,          \* how the key shares were made: none, share, compute
  indices,      \* the server_indices passed to PrivateKey::share
  keyShares,    \* the PrivateKeyShares made so far
  c1, c2,       \* two Ciphertexts (c1 is the one operated on and decrypted)
  plain1, plain2, \* the plaintexts c1 and c2 stand for
  cipherKind,   \* how c1 was made: none, enc (encrypt), raw (Ciphertext::from)
  ops,          \* the homomorphic operations applied to c1, in order
  pds,          \* the PartialDecryptions of c1
  combined,     \* what share_combine returned
  crt,          \* a direct call of util::crt2: its arguments and result
  abort         \* the panic message that ended the caller, "" when none

vars == <<pc, worker, wres, halfbits, args, t1, t3, kgRes, pk, sk, coefficients,
          via, indices, keyShares, c1, c2, plain1, plain2, cipherKind, ops,
          pds, combined, crt, abort>>

kgVars == <<worker, wres, halfbits, args, t1, t3, kgRes, pk, sk>>
shareVars == <<coefficients, via, indices, keyShares>>
cipherVars == <<c1, c2, plain1, plain2, cipherKind, ops>>

NoCrt == [a1 |-> 0, m1 |-> 0, a2 |-> 0, m2 |-> 0, res |-> NoResult]

Init ==
  /\ pc = "idle"
  /\ worker = "none" /\ wres = 0 /\ halfbits = 0
  /\ args = [decryption_servers |-> 0, threshold |-> 0]
  /\ t1 = 0 /\ t3 = 0
  /\ kgRes = NoResult /\ pk = NullPk /\ sk = NullSk
  /\ coefficients = <<>> /\ via = "none" /\ indices = <<>> /\ keyShares = <<>>
  /\ c1 = 0 /\ c2 = 0 /\ plain1 = 0 /\ plain2 = 0 /\ cipherKind = "none"
  /\ ops = <<>>
  /\ pds = <<>> /\ combined = NoResult
  /\ crt = NoCrt
  /\ abort = ""

(***************************************************************************)
(* generate_key_pair (paillier.rs 75-124).                                 *)
(***************************************************************************)
\* the call, and line 80
KgCall(bits, decryption_servers, threshold) ==
  /\ pc = "idle"
  /\ pc' = "kg_loop"
  /\ halfbits' = bits \div 2
  /\ args' = [decryption_servers |-> decryption_servers, threshold |-> threshold]
  /\ UNCHANGED <<worker, wres, t1, t3, kgRes, pk, sk, shareVars, cipherVars,
                 pds, combined, crt, abort>>

\* line 82: thread::spawn
KgSpawn ==
  /\ pc = "kg_loop"
  /\ pc' = "kg_main"
  /\ worker' = "running"
  /\ wres' = 0
  /\ UNCHANGED <<halfbits, args, t1, t3, kgRes, pk, sk, shareVars, cipherVars,
                 pds, combined, crt, abort>>

\* line 82, on the worker: generate_safe_prime(bits) returns a prime or fails
KgWorkerDraw ==
  /\ worker = "running"
  /\ worker' = "finished"
  /\ wres' \in SafePrimes(halfbits) \cup {None}
  /\ UNCHANGED <<pc, halfbits, args, t1, t3, kgRes, pk, sk, shareVars,
                 cipherVars, pds, combined, crt, abort>>

\* line 83 when generate_safe_prime(bits) is Ok
KgMainDraw ==
  /\ pc = "kg_main"
  /\ pc' = "kg_join"
  /\ t3' \in SafePrimes(halfbits)
  /\ UNCHANGED <<worker, wres, halfbits, args, t1, kgRes, pk, sk, shareVars,
                 cipherVars, pds, combined, crt, abort>>

\* line 83 when generate_safe_prime(bits) is Err: `?` returns it at once
KgMainDrawFails ==
  /\ pc = "kg_main"
  /\ pc' = "ready"
  /\ kgRes' = Err("PrimeGen")
  /\ t1' = 0 /\ t3' = 0
  /\ UNCHANGED <<worker, wres, halfbits, args, pk, sk, shareVars, cipherVars, pds,
                 combined, crt, abort>>

\* lines 84-87: join, `?` on the worker's result, the comparison of the primes
KgJoin ==
  /\ pc = "kg_join"
  /\ worker = "finished"
  /\ worker' = "none"
  /\ wres' = 0
  /\ IF wres = None
     THEN /\ pc' = "ready"
          /\ kgRes' = Err("PrimeGen")
          /\ t1' = 0 /\ t3' = 0
          /\ UNCHANGED halfbits
     ELSE /\ pc' = IF wres # t3 THEN "kg_tail" ELSE "kg_loop"
          /\ t1' = wres
          /\ UNCHANGED <<kgRes, halfbits, t3>>
  /\ UNCHANGED <<args, pk, sk, shareVars, cipherVars, pds, combined, crt, abort>>

\* lines 89-123
KgTail ==
  /\ pc = "kg_tail"
  /\ LET r == KeyPairOf(t1, t1 \div 2, t3, t3 \div 2, args.decryption_servers,
                        args.threshold)
     IN /\ pc' = IF r.kind = "panic" THEN "aborted" ELSE "ready"
        /\ abort' = IF r.kind = "panic" THEN r.msg ELSE ""
        /\ kgRes' = [kind |-> r.kind, val |-> None, msg |-> r.msg]
        /\ pk' = r.pk
        /\ sk' = r.sk
  /\ t1' = 0 /\ t3' = 0
  /\ UNCHANGED <<worker, wres, halfbits, args, shareVars, cipherVars, pds, combined, crt>>

(***************************************************************************)
(* util::crt2 called on its own.                                           *)
(***************************************************************************)
Crt2Call(a1, m1, a2, m2) ==
  /\ pc = "idle"
  /\ pc' = "crt_done"
  /\ crt' = [a1 |-> a1, m1 |-> m1, a2 |-> a2, m2 |-> m2, res |-> Crt2(a1, m1, a2, m2)]
  /\ UNCHANGED <<kgVars, shareVars, cipherVars, pds, combined, abort>>

(***************************************************************************)
(* Sharing the private key.                                                *)
(***************************************************************************)
\* The caller goes on with the key pair it got, unless its threshold exceeds
\* its number of servers (no w distinct servers exist then).
HasKeys == pc = "ready" /\ kgRes.kind = "ok" /\ pk.w <= pk.l

\* the values random_below returns for the coefficients after the first
CoefficientDraws(key) ==
  [1 .. (IF key.w = 0 THEN 0 ELSE key.w - 1) -> RandomBelow(key.nm)]

\* Polynomial::new called by the caller (as test_single_server does)
PolynomialNewCall(rnd) ==
  /\ HasKeys
  /\ via = "none"
  /\ via' = "compute"
  /\ LET r == PolynomialNew(sk, rnd)
     IN /\ pc' = IF r.kind = "panic" THEN "aborted" ELSE pc
        /\ abort' = r.msg
        /\ coefficients' = r.coefficients
  /\ UNCHANGED <<kgVars, indices, keyShares, cipherVars, pds, combined, crt>>

\* Polynomial::compute called by the caller, for one server after the other
\* in ascending order of index (a server may be asked twice); the other
\* orders reach share_combine through PrivateKey::share
ComputeCall(x) ==
  /\ HasKeys
  /\ via = "compute"
  /\ Len(keyShares) < MaxShares
  /\ keyShares # <<>> => keyShares[Len(keyShares)].i <= x + 1
  /\ keyShares' = Append(keyShares, Compute(coefficients, sk, x))
  /\ UNCHANGED <<pc, kgVars, coefficients, via, indices, cipherVars, pds,
                 combined, crt, abort>>

\* PrivateKey::share
ShareCall(server_indices, rnd) ==
  /\ HasKeys
  /\ via = "none"
  /\ via' = "share"
  /\ indices' = server_indices
  /\ LET r == Share(sk, server_indices, rnd)
     IN /\ pc' = IF r.kind = "panic" THEN "aborted" ELSE pc
        /\ abort' = r.msg
        /\ keyShares' = r.shares
        /\ coefficients' = r.coefficients
  /\ UNCHANGED <<kgVars, cipherVars, pds, combined, crt>>

(***************************************************************************)
(* Encryption, partial decryption, combination.                            *)
(***************************************************************************)
\* PublicKey::encrypt
EncryptCall(m, r) ==
  /\ HasKeys
  /\ pc' = "encrypted"
  /\ c1' = Encrypt(pk, m, r)
  /\ plain1' = m
  /\ cipherKind' = "enc"
  /\ UNCHANGED <<kgVars, shareVars, c2, plain2, ops, pds, combined, crt, abort>>

\* lib.rs impl_from!(Ciphertext; ...): a ciphertext made from any integer
CiphertextFrom(v) ==
  /\ HasKeys
  /\ pc' = "encrypted"
  /\ c1' = v
  /\ cipherKind' = "raw"
  /\ UNCHANGED <<kgVars, shareVars, c2, plain1, plain2, ops, pds, combined,
                 crt, abort>>

\* PrivateKeyShare::share_decrypt by every share holder, in the order of the
\* key shares
ShareDecryptCall ==
  /\ pc = "encrypted"
  /\ pc' = "decrypted"
  /\ pds' = [k \in 1 .. Len(keyShares) |-> ShareDecrypt(keyShares[k], pk, c1)]
  /\ UNCHANGED <<kgVars, shareVars, cipherVars, combined, crt, abort>>

\* PublicKey::share_combine
ShareCombineCall ==
  /\ pc = "decrypted"
  /\ pc' = "combined"
  /\ combined' \in ShareCombine(pk, pds)
  /\ abort' = combined'.msg
  /\ UNCHANGED <<kgVars, shareVars, cipherVars, pds, crt>>

SeqsUpTo(S, k) == UNION {[1 .. j -> S] : j \in 0 .. k}

Next ==
  \/ /\ pc = "idle"
     /\ \E bits \in BitsChoices, l \in 1 .. MaxServers, w \in 0 .. MaxThreshold :
          KgCall(bits, l, w)
  \/ KgSpawn
  \/ KgWorkerDraw
  \/ KgMainDraw
  \/ KgMainDrawFails
  \/ KgJoin
  \/ KgTail
  \/ /\ pc = "idle"
     /\ \E a1 \in 0 .. MaxModulus, m1 \in 1 .. MaxModulus,
           a2 \in 0 .. MaxModulus, m2 \in 1 .. MaxModulus :
          Crt2Call(a1, m1, a2, m2)
  \/ /\ HasKeys /\ via = "none"
     /\ \E rnd \in CoefficientDraws(sk) : PolynomialNewCall(rnd)
  \/ /\ HasKeys /\ via = "compute"
     /\ \E x \in IndexChoices : ComputeCall(x)
  \/ /\ HasKeys /\ via = "none"
     /\ \E idx \in SeqsUpTo(IndexChoices, MaxShares) :
          \E rnd \in CoefficientDraws(sk) : ShareCall(idx, rnd)
  \/ /\ HasKeys
     /\ \E m \in PlainChoices, r \in RandomInMultGroup(pk.n) : EncryptCall(m, r)
  \/ /\ HasKeys
     /\ \E v \in RawCipherChoices : CiphertextFrom(v)
  \/ ShareDecryptCall
  \/ ShareCombineCall

Spec == Init /\ [][Next]_vars

(***************************************************************************)
(* The homomorphic operations on c1 (paillier.rs 155-180), each with the   *)
(* plaintext operation it stands for.                                      *)
(***************************************************************************)
CanOperate == pc = "encrypted" /\ cipherKind = "enc" /\ Len(ops) < MaxOps

ReencryptCall(r) ==
  /\ CanOperate
  /\ c1' = Reencrypt(pk, c1, r)
  /\ ops' = Append(ops, "reencrypt")
  /\ UNCHANGED <<pc, kgVars, shareVars, c2, plain1, plain2, cipherKind, pds,
                 combined, crt, abort>>

AddPlainCall(p) ==
  /\ CanOperate
  /\ c1' = AddPlain(pk, c1, p)
  /\ plain1' = (plain1 + p) % pk.n
  /\ ops' = Append(ops, "add_plain")
  /\ UNCHANGED <<pc, kgVars, shareVars, c2, plain2, cipherKind, pds, combined,
                 crt, abort>>

AddEncryptedCall ==
  /\ CanOperate
  /\ c1' = AddEncrypted(pk, c1, c2)
  /\ plain1' = (plain1 + plain2) % pk.n
  /\ ops' = Append(ops, "add_encrypted")
  /\ UNCHANGED <<pc, kgVars, shareVars, c2, plain2, cipherKind, pds, combined,
                 crt, abort>>

MulPlainCall(k) ==
  /\ CanOperate
  /\ c1' = MulPlain(pk, c1, k)
  /\ plain1' = (plain1 * k) % pk.n
  /\ ops' = Append(ops, "mul_plain")
  /\ UNCHANGED <<pc, kgVars, shareVars, c2, plain2, cipherKind, pds, combined,
                 crt, abort>>

\* The states after generate_key_pair, PrivateKey::share at the indices
\* 0..w-1 and two calls of encrypt.
InitHom ==
  \E key \in HomKeyChoices, p, q \in SafePrimeTable :
    /\ p # q
    /\ LET kp == KeyPairOf(p, p \div 2, q, q \div 2, key[1], key[2])
       IN /\ pk = kp.pk /\ sk = kp.sk
          /\ kgRes = [kind |-> kp.kind, val |-> None, msg |-> kp.msg]
          /\ args = [decryption_servers |-> key[1], threshold |-> key[2]]
          /\ indices = [k \in 1 .. key[2] |-> k - 1]
          /\ \E rnd \in CoefficientDraws(kp.sk) :
               LET sh == Share(kp.sk, indices, rnd)
               IN keyShares = sh.shares /\ coefficients = sh.coefficients
          /\ \E m1 \in PlainChoices, r1 \in RandomInMultGroup(kp.pk.n) :
               c1 = Encrypt(kp.pk, m1, r1) /\ plain1 = m1
          /\ \E m2 \in PlainChoices :
               /\ c2 = Encrypt(kp.pk, m2, CHOOSE r \in RandomInMultGroup(kp.pk.n) : TRUE)
               /\ plain2 = m2
    /\ pc = "encrypted" /\ cipherKind = "enc" /\ via = "share"
    /\ worker = "none" /\ wres = 0 /\ halfbits = 3 /\ t1 = 0 /\ t3 = 0
    /\ ops = <<>> /\ pds = <<>> /\ combined = NoResult /\ crt = NoCrt
    /\ abort = ""

NextHom ==
  \/ /\ CanOperate
     /\ \E r \in RandomInMultGroup(pk.n) : ReencryptCall(r)
  \/ /\ CanOperate
     /\ \E p \in OperandChoices(pk.n) : AddPlainCall(p)
  \/ AddEncryptedCall
  \/ /\ CanOperate
     /\ \E k \in OperandChoices(pk.n) : MulPlainCall(k)
  \/ ShareDecryptCall
  \/ ShareCombineCall

SpecHom == InitHom /\ [][NextHom]_vars

(***************************************************************************)
(* Vocabulary of the properties.                                           *)
(***************************************************************************)
Ids(shares) == {shares[k].id : k \in 1 .. Len(shares)}
DistinctIds(shares) == Cardinality(Ids(shares)) = Len(shares)
IdsInRange(shares, l) == Ids(shares) \subseteq 1 .. l
DistinctIndices(idx) == Cardinality({idx[k] : k \in 1 .. Len(idx)}) = Len(idx)

Orderings(k) ==
  {f \in [1 .. k -> 1 .. k] : \A a, b \in 1 .. k : f[a] = f[b] => a = b}
Permuted(shares, f) == [k \in 1 .. Len(shares) |-> shares[f[k]]]

RECURSIVE Pick(_, _, _)
\* the shares at the positions of S, from position k on
Pick(shares, S, k) ==
  IF k > Len(shares) THEN <<>>
  ELSE IF k \in S THEN <<shares[k]>> \o Pick(shares, S, k + 1)
  ELSE Pick(shares, S, k + 1)

\* share_combine was called on partial decryptions, by shares of one
\* polynomial, of a ciphertext that encrypt produced
CombinedEncryption == pc = "combined" /\ cipherKind = "enc"

(***************************************************************************)
(* C1.  Threshold decryption: for a key with 1 <= w <= l, the combination  *)
(* of the w partial decryptions of encrypt(m), made with the shares of one *)
(* polynomial at w distinct server indices of 0..l-1, is m mod n.          *)
(***************************************************************************)
C1_ThresholdDecryption ==
  (/\ CombinedEncryption
   /\ 1 <= pk.w /\ pk.w <= pk.l
   /\ Len(pds) = pk.w
   /\ DistinctIds(pds) /\ IdsInRange(pds, pk.l))
  => combined = Ok(plain1 % pk.n)

C1_Witness ==
  /\ CombinedEncryption
  /\ via = "share" /\ indices = <<2, 0>>
  /\ pk.w = 2 /\ pk.l = 3
  /\ plain1 = 36
  /\ combined = Ok(1)

(***************************************************************************)
(* C3.  Share-order invariance, for partial decryptions with pairwise      *)
(* distinct ids that all lie in 1..l: share_combine returns the same       *)
(* result on every permutation of the list.                                *)
(***************************************************************************)
C3_OrderInvariantInRange ==
  (pc = "combined" /\ DistinctIds(pds) /\ IdsInRange(pds, pk.l))
  => \A f \in Orderings(Len(pds)) :
       ShareCombine(pk, Permuted(pds, f)) = {combined}

\* C3 as stated: every list with pairwise distinct ids (here under a key
\* with 1 <= w <= l, which the statement does not even ask for)
C3_OrderInvariantAnyIds ==
  (pc = "combined" /\ DistinctIds(pds) /\ 1 <= pk.w /\ pk.w <= pk.l)
  => \A f \in Orderings(Len(pds)) :
       ShareCombine(pk, Permuted(pds, f)) = {combined}

C3_Witness ==
  /\ CombinedEncryption
  /\ Len(pds) = 3 /\ pk.l = 3 /\ pk.w = 3
  /\ DistinctIds(pds) /\ IdsInRange(pds, pk.l)
  /\ pds[1].id = 2 /\ pds[2].id = 3 /\ pds[3].id = 1
  /\ combined = Ok(5)

(***************************************************************************)
(* C4.  Extra shares: the combination of the partial decryptions of        *)
(* encrypt(m) by k shares of one polynomial at distinct ids of 1..l, with  *)
(* w <= k <= l, is m mod n, and so is that of every w of them.             *)
(***************************************************************************)
C4_ExtraShares ==
  (/\ CombinedEncryption
   /\ 1 <= pk.w /\ pk.w <= Len(pds)
   /\ DistinctIds(pds) /\ IdsInRange(pds, pk.l))
  => /\ combined = Ok(plain1 % pk.n)
     /\ \A S \in {T \in SUBSET (1 .. Len(pds)) : Cardinality(T) = pk.w} :
          ShareCombine(pk, Pick(pds, S, 1)) = {combined}

C4_Witness ==
  /\ CombinedEncryption
  /\ via = "compute"
  /\ pk.w = 2 /\ pk.l = 4 /\ Len(pds) = 3
  /\ DistinctIds(pds) /\ IdsInRange(pds, pk.l)
  /\ plain1 = -1
  /\ combined = Ok(34)

(***************************************************************************)
(* C5.  share_combine on a list in which two partial decryptions bear the  *)
(* same id panics and returns no plaintext, in whatever order the list is  *)
(* passed; when every share value is a unit modulo n^2 the panic is that   *)
(* of the assertion on the ids.                                            *)
(***************************************************************************)
C5_DuplicateIdsPanic ==
  (pc = "combined" /\ ~DistinctIds(pds))
  => /\ combined.kind = "panic"
     /\ abort # ""
     /\ \A f \in Orderings(Len(pds)) :
          \A r \in ShareCombine(pk, Permuted(pds, f)) : r.kind = "panic"
     /\ (\A k \in 1 .. Len(pds) : Gcd(pds[k].val, pk.n2) = 1)
          => combined.msg = "share_combine must be passed unique shares"

C5_Witness ==
  /\ pc = "combined"
  /\ Len(pds) = 3
  /\ pds[1].id = pds[3].id /\ pds[1].id # pds[2].id
  /\ combined.kind = "panic"

(***************************************************************************)
(* C6.  PrivateKey::share panics, and returns no shares, whenever the      *)
(* number of server indices is not w and whenever the indices are not      *)
(* pairwise distinct (here under a key with 1 <= w <= l).                  *)
(***************************************************************************)
C6_ShareRejectsBadIndices ==
  (/\ via = "share"
   /\ 1 <= sk.w /\ sk.w <= sk.l
   /\ (Len(indices) # sk.w \/ ~DistinctIndices(indices)))
  => (pc = "aborted" /\ abort # "" /\ keyShares = <<>>)

(***************************************************************************)
(* C7.  Whenever generate_key_pair leaves its tail (lines 89-123) with     *)
(* primes t1, t3 and n = t1 * t3: if 4 * delta^2 has no inverse modulo n   *)
(* it returns the NoInverse error and no key; otherwise it returns Ok with *)
(* n odd, g = n + 1, n2 = n^2 in both keys, delta = l! and                 *)
(* 4 * delta^2 * combine_shares_constant = 1 (mod n).                      *)
(***************************************************************************)
HasInverseMod(a, n) == \E x \in 0 .. (n - 1) : (a * x) % n = 1

C7_KeyPairInvariants ==
  [][(pc = "kg_tail" /\ pc' # "kg_tail")
     => LET n == t1 * t3
            dl == Factorial(args.decryption_servers)
        IN IF ~HasInverseMod(4 * dl * dl, n)
           THEN /\ kgRes' = Err("No inverse")
                /\ pk' = NullPk /\ sk' = NullSk
           ELSE /\ kgRes'.kind = "ok"
                /\ pk'.n = n /\ sk'.n = n
                /\ pk'.n % 2 = 1
                /\ pk'.g = n + 1
                /\ pk'.n2 = n * n /\ sk'.n2 = n * n
                /\ pk'.l = args.decryption_servers
                /\ pk'.delta = dl
                /\ pk'.combine_shares_constant \in 0 .. (n - 1)
                /\ (4 * dl * dl * pk'.combine_shares_constant) % n = 1]_vars

C7_Witness ==
  /\ kgRes.kind = "ok"
  /\ pk.l = 4 /\ pk.n = 35 /\ pk.g = 36 /\ pk.n2 = 1225 /\ pk.delta = 24
  /\ (4 * 24 * 24 * pk.combine_shares_constant) % 35 = 1

C9_CombineReturnsNoInverse ==
  (/\ pc = "combined"
   /\ 1 <= pk.w /\ pk.w <= pk.l
   /\ DistinctIds(pds)
   /\ \E k \in 1 .. Len(pds) :
        LET lambda == LambdaLoop(pds, k, 1, pk.delta).val
        IN /\ lambda < 0
           /\ ~HasInverseMod(PowMod(pds[k].val, 2 * (-lambda), pk.n2), pk.n2))
  => combined = Err("No inverse")

(***************************************************************************)
(* C10.  Every key pair generate_key_pair returns has 1 <= w <= l.         *)
(***************************************************************************)
C10_ThresholdWithinServers ==
  kgRes.kind = "ok"
  => (1 <= pk.w /\ pk.w <= pk.l /\ 1 <= sk.w /\ sk.w <= sk.l)

(***************************************************************************)
(* C2.  Homomorphism: after any sequence of reencrypt, add_plain,          *)
(* add_encrypted and mul_plain on c1 (operands in 0..n-1), the threshold   *)
(* decryption of c1 is the plaintext obtained by applying identity, m + p, *)
(* m1 + m2 and m * k, in the same order, modulo n.                         *)
(***************************************************************************)
ThresholdDecrypt(cipher) ==
  ShareCombine(pk, [k \in 1 .. Len(keyShares) |-> ShareDecrypt(keyShares[k], pk, cipher)])

C2_Homomorphism ==
  /\ (pc \in {"encrypted", "decrypted", "combined"} /\ cipherKind = "enc")
       => ThresholdDecrypt(c1) = {Ok(plain1 % pk.n)}
  /\ CombinedEncryption => combined = Ok(plain1 % pk.n)

C2_Witness ==
  /\ CombinedEncryption
  /\ ops = <<"add_encrypted", "mul_plain">>
  /\ pk.w = 2 /\ pk.l = 3
  /\ plain2 = 36
  /\ plain1 = 12
  /\ combined = Ok(12)

(***************************************************************************)
(* C11.  Once generate_key_pair has returned (the caller is no longer      *)
(* inside lines 80-123), on whatever path it returned, no worker it forked *)
(* is still running or left unjoined.                                      *)
(***************************************************************************)
C11_WorkersJoinedAtReturn ==
  (pc \notin {"kg_loop", "kg_main", "kg_join", "kg_tail"}) => worker = "none"

=============================================================================
